---- MODULE Spec2Model ----
(***************************************************************************)
(* Model of the window tracker service of blaze-dock                       *)
(* (src/src/services/window_tracker.rs).                                   *)
(*                                                                         *)
(* Strings are sequences of code points (ASCII), so that to_lowercase()    *)
(* and contains() are computed and not assumed.  A HashMap is a function   *)
(* whose domain is the set of stored keys.                                 *)
(*                                                                         *)
(* All tracker code runs on the glib main loop (spawn_future_local,        *)
(* timeout_add_seconds_local): a callback or a future runs without         *)
(* interleaving with other main-loop work between two of its await         *)
(* points.  The tracker is Clone + Send + Sync (every field is an          *)
(* Arc<Mutex<_>>), so a clone on another thread can take either lock       *)
(* between the two separate lock acquisitions of a registry replace.       *)
(***************************************************************************)
EXTENDS Integers, Sequences, FiniteSets, TLC

VARIABLES
    env,                \* the process environment read by new()
    desktop,            \* WindowTracker.desktop
    running,            \* WindowTracker.running
    windows,            \* WindowTracker.windows (Vec<WindowInfo>)
    app_window_counts,  \* WindowTracker.app_window_counts (HashMap<String,u32>)
    timers,             \* number of installed glib periodic timeout sources
    tasks,              \* futures spawned on the main loop, in dispatch order
    main_thread,        \* where the main thread is: "idle" between two
                        \* callbacks, "start" inside start() after it
                        \* released the flag, "tick" inside a timer closure
                        \* after is_running() returned true
    overridden,         \* history: keys passed to set_window_count since the
                        \* count map was last replaced by a poll
    lastOp              \* history: the operation that produced this state

vars == <<env, desktop, running, windows, app_window_counts, timers, tasks,
          main_thread, overridden, lastOp>>

----------------------------------------------------------------------------
(* Bounds of the model *)

MaxInFlight == 2
MaxTimers == 2

----------------------------------------------------------------------------
(* Strings *)

s_empty == <<>>
s_kde == <<107, 100, 101>>
s_plasma == <<112, 108, 97, 115, 109, 97>>
s_gnome == <<103, 110, 111, 109, 101>>
s_unknown == <<117, 110, 107, 110, 111, 119, 110>>
s_con == <<99, 111, 110>>

\* "KDE", "Plasma", "GNOME", "ubuntu:GNOME", "Gnome-KDE", "XFCE"
s_KDE == <<75, 68, 69>>
s_Plasma == <<80, 108, 97, 115, 109, 97>>
s_GNOME == <<71, 78, 79, 77, 69>>
s_ubuntu_GNOME == <<117, 98, 117, 110, 116, 117, 58, 71, 78, 79, 77, 69>>
s_Gnome_KDE == <<71, 110, 111, 109, 101, 45, 75, 68, 69>>
s_XFCE == <<88, 70, 67, 69>>

\* "Firefox", "firefox", "code", "kitty", "fire", "firefox-esr"
s_Firefox == <<70, 105, 114, 101, 102, 111, 120>>
s_firefox == <<102, 105, 114, 101, 102, 111, 120>>
s_fire == <<102, 105, 114, 101>>
s_firefox_esr == <<102, 105, 114, 101, 102, 111, 120, 45, 101, 115, 114>>
s_code == <<99, 111, 100, 101>>
s_kitty == <<107, 105, 116, 116, 121>>

\* "0x1", "0x2", "0x3", "t"
s_0x1 == <<48, 120, 49>>
s_0x2 == <<48, 120, 50>>
s_0x3 == <<48, 120, 51>>
s_t == <<116>>
s_A == <<65>>
s_B == <<66>>
s_workspace == <<119, 111, 114, 107, 115, 112, 97, 99, 101>>
s_code_oss == <<99, 111, 100, 101, 45, 111, 115, 115>>
s_cod == <<99, 111, 100>>
s_i3_ipc == <<105, 51, 45, 105, 112, 99>>

\* char::to_lowercase on the ASCII range
ToLowerChar(c) == IF c \in 65..90 THEN c + 32 ELSE c

\* str::to_lowercase
to_lowercase(s) == [i \in 1..Len(s) |-> ToLowerChar(s[i])]

\* str::contains(&str): the needle occurs as a contiguous substring; the
\* empty needle occurs in every string
contains(hay, needle) ==
    \E i \in 0..(Len(hay) - Len(needle)) :
        SubSeq(hay, i + 1, i + Len(needle)) = needle

\* the decimal digits of a natural number, as code points
RECURSIVE DigitsOf(_)
DigitsOf(n) == IF n < 10 THEN <<48 + n>>
               ELSE Append(DigitsOf(n \div 10), 48 + (n % 10))

\* i64::to_string / u64::to_string
to_string(n) == IF n < 0 THEN <<45>> \o DigitsOf(0 - n) ELSE DigitsOf(n)

----------------------------------------------------------------------------
(* Environment detection *)

None == [some |-> FALSE]
Some(v) == [some |-> TRUE, v |-> v]

\* std::env::var(name).unwrap_or_default()
unwrap_or_default(o) == IF o.some THEN o.v ELSE s_empty

detect_swapped(e) ==
    LET desktop_lower == to_lowercase(unwrap_or_default(e.XDG_CURRENT_DESKTOP))
        session_lower == to_lowercase(unwrap_or_default(e.XDG_SESSION_DESKTOP))
    IN  IF e.HYPRLAND_INSTANCE_SIGNATURE.some THEN "Hyprland"
        ELSE IF e.SWAYSOCK.some THEN "Sway"
        ELSE IF contains(desktop_lower, s_gnome) \/ contains(session_lower, s_gnome)
             THEN "GNOME"
        ELSE IF contains(desktop_lower, s_kde) \/ contains(desktop_lower, s_plasma)
                \/ contains(session_lower, s_kde) \/ contains(session_lower, s_plasma)
             THEN "KDE"
        ELSE "Unknown"

detect_desktop_environment(e) ==
    LET desktop_lower == to_lowercase(unwrap_or_default(e.XDG_CURRENT_DESKTOP))
        session_lower == to_lowercase(unwrap_or_default(e.XDG_SESSION_DESKTOP))
    IN  IF e.HYPRLAND_INSTANCE_SIGNATURE.some THEN "Hyprland"
        ELSE IF e.SWAYSOCK.some THEN "Sway"
        ELSE IF contains(desktop_lower, s_kde) \/ contains(desktop_lower, s_plasma)
                \/ contains(session_lower, s_kde) \/ contains(session_lower, s_plasma)
             THEN "KDE"
        ELSE IF contains(desktop_lower, s_gnome) \/ contains(session_lower, s_gnome)
             THEN "GNOME"
        ELSE "Unknown"

Env(h, s, d, x) == [HYPRLAND_INSTANCE_SIGNATURE |-> h, SWAYSOCK |-> s,
                    XDG_CURRENT_DESKTOP |-> d, XDG_SESSION_DESKTOP |-> x]

\* the environments detection is applied to: every marker absent or present,
\* the desktop names in several letter cases
MarkerValues == {None, Some(s_t)}
DesktopNames == {None, Some(s_empty), Some(s_KDE), Some(s_Plasma), Some(s_GNOME),
                 Some(s_ubuntu_GNOME), Some(s_Gnome_KDE), Some(s_XFCE)}
SessionNames == {None, Some(s_plasma), Some(s_gnome), Some(s_XFCE)}

EnvSpace == {Env(h, s, d, x) : h \in MarkerValues, s \in MarkerValues,
                               d \in DesktopNames, x \in SessionNames}

\* the sessions the tracker is run in: one per backend, and one with several
\* markers set at once
Environments ==
    { Env(None, None, None, None),
      Env(None, None, Some(s_KDE), None),
      Env(None, None, Some(s_ubuntu_GNOME), Some(s_gnome)),
      Env(Some(s_t), None, None, None),
      Env(None, Some(s_t), Some(s_GNOME), None) }

----------------------------------------------------------------------------
(* Registry values *)

WindowInfo(id, title, app_id, is_active) ==
    [id |-> id, title |-> title, app_id |-> app_id, is_active |-> is_active]

\* HashMap::new()
EmptyMap == [k \in {} |-> 0]

\* HashMap::insert
MapInsert(m, key, v) ==
    [k \in (DOMAIN m) \cup {key} |-> IF k = key THEN v ELSE m[k]]

\* HashMap::remove
MapRemove(m, key) == [k \in (DOMAIN m) \ {key} |-> m[k]]

\* *counts.entry(app_id).or_insert(0) += 1   (a u32; one reply holds far
\* fewer than 2^32 windows, so the addition never wraps)
CountEntry(counts, app_id) ==
    MapInsert(counts, app_id,
              (IF app_id \in DOMAIN counts THEN counts[app_id] ELSE 0) + 1)

Ok(counts, window_list) ==
    [ok |-> TRUE, counts |-> counts, window_list |-> window_list]
Err == [ok |-> FALSE, counts |-> EmptyMap, window_list |-> <<>>]

----------------------------------------------------------------------------
(* Hyprland: the reply to j/clients, as the JSON value serde_json reads *)

JsonInvalid == [t |-> "invalid"]
JsonArray(items) == [t |-> "array", items |-> items]
JsonObject(node) == [t |-> "object", node |-> node]

\* JSON values a number-typed field can meet: an integer literal within
\* i32, or a value of another kind ("object", "null", "float", or
\* "wide_int" for an integer literal outside i32)
JsonInt(n) == [t |-> "int", n |-> n]
JsonOther(kind) == [t |-> kind]

\* one element of the client array; a field the object lacks is None
HyprClient(address, title, class, workspace) ==
    [address |-> address, title |-> title, class |-> class,
     workspace |-> workspace]

\* #[serde(default)] workspace: i32 -- absent, or an integer that fits i32
deserialize_workspace(workspace) ==
    IF ~workspace.some THEN Some(0)
    ELSE IF workspace.v.t = "int" THEN Some(workspace.v.n)
    ELSE None

\* the loop of parse_hyprland_clients over clients[i..]
RECURSIVE HyprLoop(_, _, _, _)
HyprLoop(clients, i, counts, window_list) ==
    IF i > Len(clients) THEN Ok(counts, window_list)
    ELSE LET client == clients[i]
             app_id == client.class.v
         IN  HyprLoop(clients, i + 1, CountEntry(counts, app_id),
                      Append(window_list,
                             WindowInfo(client.address.v, client.title.v, app_id, FALSE)))

parse_hyprland_clients(json) ==
    IF json.t # "array" THEN Err
    ELSE IF \E i \in 1..Len(json.items) :
               ~json.items[i].address.some \/ ~json.items[i].title.some
               \/ ~json.items[i].class.some
               \/ ~deserialize_workspace(json.items[i].workspace).some
         THEN Err
    ELSE HyprLoop(json.items, 1, EmptyMap, <<>>)

----------------------------------------------------------------------------
(* Sway: the get_tree reply *)

\* a SwayNode after serde's defaults were applied
SwayNode(node_type, app_id, name, id, focused, nodes, floating_nodes) ==
    [node_type |-> node_type, app_id |-> app_id, name |-> name, id |-> id,
     focused |-> focused, nodes |-> nodes, floating_nodes |-> floating_nodes]

RECURSIVE collect_windows(_, _)
RECURSIVE collect_children(_, _, _)

\* acc is the pair of &mut arguments: [windows, counts]
collect_windows(node, acc) ==
    LET here == IF node.node_type = Some(s_con) /\ node.app_id.some
                THEN [windows |-> Append(acc.windows,
                                         WindowInfo(to_string(node.id),
                                                    unwrap_or_default(node.name),
                                                    node.app_id.v, node.focused)),
                      counts |-> CountEntry(acc.counts, node.app_id.v)]
                ELSE acc
    IN  collect_children(node.floating_nodes, 1,
                         collect_children(node.nodes, 1, here))

collect_children(children, i, acc) ==
    IF i > Len(children) THEN acc
    ELSE collect_children(children, i + 1, collect_windows(children[i], acc))

\* the k-th element of a JSON array read as a struct, or the field's
\* default when the array ends before it
seq_field(items, k, default) == IF k <= Len(items) THEN items[k] ELSE default

\* the derived Deserialize reads a JSON array as the struct's fields in
\* their declared order: app_id, name, nodes, floating_nodes, focused, id,
\* type
sway_node_from_seq(items) ==
    SwayNode(seq_field(items, 7, None), seq_field(items, 1, None),
             seq_field(items, 2, None), seq_field(items, 6, 0),
             seq_field(items, 5, FALSE), seq_field(items, 3, <<>>),
             seq_field(items, 4, <<>>))

\* serde_json::from_str::<SwayNode>: an object, or an array of at most
\* seven elements
deserialize_sway_node(json) ==
    IF json.t = "object" THEN Some(json.node)
    ELSE IF json.t = "array" /\ Len(json.items) <= 7
    THEN Some(sway_node_from_seq(json.items))
    ELSE None

parse_sway_tree(json) ==
    LET root == deserialize_sway_node(json)
    IN  IF ~root.some THEN Err
        ELSE LET acc == collect_windows(root.v, [windows |-> <<>>, counts |-> EmptyMap])
             IN  Ok(acc.counts, acc.windows)

----------------------------------------------------------------------------
(* GNOME: the GetWindows reply *)

\* a zvariant value: a string ("s") or a value of another type
VStr(s) == [sig |-> "s", v |-> s]
VUint(n) == [sig |-> "u", v |-> n]

\* the body as HashMap<u64, HashMap<String, OwnedValue>>, its entries in the
\* order the map iterates them; a body of another signature does not
\* deserialize
GnomeBadBody == [t |-> "bad_signature"]
GnomeMap(entries) == [t |-> "map", entries |-> entries]
GnomeEntry(window_id, app_id, title) ==
    [window_id |-> window_id, app_id |-> app_id, title |-> title]

\* props.get(key).and_then(|v| String::try_from(v).ok())
prop_string(p) == IF p.some /\ p.v.sig = "s" THEN Some(p.v.v) ELSE None

RECURSIVE GnomeLoop(_, _, _, _)
GnomeLoop(entries, i, counts, window_list) ==
    IF i > Len(entries) THEN Ok(counts, window_list)
    ELSE LET e == entries[i]
             a == prop_string(e.app_id)
             app_id == IF a.some THEN a.v ELSE s_unknown
             title == unwrap_or_default(prop_string(e.title))
         IN  GnomeLoop(entries, i + 1, CountEntry(counts, app_id),
                       Append(window_list,
                              WindowInfo(to_string(e.window_id), title, app_id, FALSE)))

parse_gnome_windows(message) ==
    IF message.t # "map" THEN Err
    ELSE GnomeLoop(message.entries, 1, EmptyMap, <<>>)

----------------------------------------------------------------------------
(* What a poll's I/O can deliver *)

NoReply == [t |-> "none"]

\* the workspace of a client as Hyprland reports it: {"id": .., "name": ..}
HyprWorkspace == Some(JsonOther("object"))

\* three clients with classes Firefox, Firefox, kitty and integer or no
\* workspace; one client "code"; an array whose second object lacks "class";
\* one client "kitty" whose workspace is the object Hyprland reports
HyprReplies ==
    { JsonInvalid,
      JsonArray(<<HyprClient(Some(s_0x1), Some(s_t), Some(s_Firefox), None),
                  HyprClient(Some(s_0x2), Some(s_empty), None, None)>>),
      JsonArray(<<HyprClient(Some(s_0x1), Some(s_t), Some(s_Firefox), Some(JsonInt(2))),
                  HyprClient(Some(s_0x2), Some(s_empty), Some(s_Firefox), Some(JsonInt(-1))),
                  HyprClient(Some(s_0x3), Some(s_t), Some(s_kitty), None)>>),
      JsonArray(<<HyprClient(Some(s_0x1), Some(s_t), Some(s_code), None)>>),
      JsonArray(<<HyprClient(Some(s_0x1), Some(s_t), Some(s_kitty), HyprWorkspace)>>) }

SwayLeaf(app_id, id, focused) ==
    SwayNode(Some(s_con), app_id, Some(s_t), id, focused, <<>>, <<>>)

\* root > container > {con Firefox, floating con kitty, con without app_id};
\* a root holding one con "code"; the empty array; the array form of a con
\* "kitty"
SwayReplies ==
    { JsonInvalid,
      JsonArray(<<>>),
      JsonArray(<<Some(s_kitty), Some(s_t), <<>>, <<>>, TRUE, 6, Some(s_con)>>),
      JsonObject(SwayNode(None, None, None, 1, FALSE,
          << SwayNode(None, None, Some(s_t), 2, FALSE,
                      << SwayLeaf(Some(s_Firefox), 3, TRUE), SwayLeaf(None, 5, FALSE) >>,
                      << SwayLeaf(Some(s_kitty), 4, FALSE) >>) >>,
          <<>>)),
      JsonObject(SwayNode(None, None, None, 1, FALSE,
          << SwayLeaf(Some(s_code), 12, FALSE) >>, <<>>)) }

\* two windows (one without a string app-id) in either order the map can
\* iterate them; one window "code"
GnomeReplies ==
    { GnomeBadBody,
      GnomeMap(<< GnomeEntry(7, Some(VStr(s_Firefox)), Some(VStr(s_t))),
                  GnomeEntry(8, Some(VUint(3)), None) >>),
      GnomeMap(<< GnomeEntry(8, Some(VUint(3)), None),
                  GnomeEntry(7, Some(VStr(s_Firefox)), Some(VStr(s_t))) >>),
      GnomeMap(<< GnomeEntry(9, Some(VStr(s_code)), Some(VStr(s_t))) >>) }

\* what KWin holds when it is polled: the window classes of its clients,
\* which queryWindowInfo reports and the loaded script would count
KdeWindows(classes) == [t |-> "kde", classes |-> classes]

\* no client; three clients with classes Firefox, Firefox, kitty
KdeReplies ==
    { KdeWindows(<<>>), KdeWindows(<<s_Firefox, s_Firefox, s_kitty>>) }

Outcome(io, reply) == [io |-> io, reply |-> reply]

\* the ways the transport of a backend's poll can end: an error of one of its
\* `?`/match arms, or a reply; tokio's UnixStream::connect registers the
\* socket it opened with the reactor of the calling thread and panics when
\* the thread has entered no Tokio runtime ("panic")
Outcomes(d) ==
    CASE d = "Hyprland" ->
            {Outcome("connect", NoReply), Outcome("panic", NoReply),
             Outcome("short_read", NoReply)}
            \cup {Outcome("ok", r) : r \in HyprReplies}
      [] d = "Sway" ->
            {Outcome("connect", NoReply), Outcome("panic", NoReply),
             Outcome("short_read", NoReply)}
            \cup {Outcome("ok", r) : r \in SwayReplies}
      [] d = "GNOME" ->
            {Outcome("connect", NoReply), Outcome("absent", NoReply)}
            \cup {Outcome("ok", r) : r \in GnomeReplies}
      [] d = "KDE" ->
            {Outcome("connect", NoReply)}
            \cup {Outcome("ok", r) : r \in KdeReplies}
            \cup {Outcome("absent", r) : r \in KdeReplies}
      [] OTHER -> {}

\* the parse a backend applies to a reply
parse_reply(d, reply) ==
    CASE d = "Hyprland" -> parse_hyprland_clients(reply)
      [] d = "Sway" -> parse_sway_tree(reply)
      [] d = "GNOME" -> parse_gnome_windows(reply)
      [] OTHER -> Err

\* a KDE poll that loads the script after every primary call
poll_kde_calls_both(io) ==
    IF io = "connect" THEN <<>>
    ELSE <<"queryWindowInfo", "loadScript">>

\* the method calls poll_kde_windows issues, in order: none when the
\* session bus cannot be reached, queryWindowInfo, and loadScript when
\* queryWindowInfo returned an error
poll_kde_calls(io) ==
    IF io = "connect" THEN <<>>
    ELSE IF io = "ok" THEN <<"queryWindowInfo">>
    ELSE <<"queryWindowInfo", "loadScript">>

kde_calls(d, io) == IF d = "KDE" THEN poll_kde_calls(io) ELSE <<>>

\* a poll that stores an empty registry when its I/O or its parse fails
poll_windows_clearing(d, o) ==
    IF d = "KDE"
    THEN [act |-> "keep", kind |-> IF o.io = "connect" THEN "connect" ELSE "kde_done",
          res |-> Err]
    ELSE IF o.io = "panic"
    THEN [act |-> "panic", kind |-> "panic", res |-> Err]
    ELSE IF o.io # "ok"
    THEN [act |-> "replace", kind |-> o.io, res |-> Ok(EmptyMap, <<>>)]
    ELSE LET res == parse_reply(d, o.reply)
         IN  IF res.ok THEN [act |-> "replace", kind |-> "ok", res |-> res]
             ELSE [act |-> "replace", kind |-> "invalid", res |-> Ok(EmptyMap, <<>>)]

\* poll_<backend>_windows from the completion of its I/O on: what it does
\* to the registry ("replace", or "keep"), or that it unwinds ("panic"),
\* and why
poll_windows(d, o) ==
    IF d = "KDE"
    THEN \* parse_kde_response and poll_kde_via_script store nothing
         [act |-> "keep", kind |-> IF o.io = "connect" THEN "connect" ELSE "kde_done",
          res |-> Err]
    ELSE IF o.io = "panic"
    THEN [act |-> "panic", kind |-> "panic", res |-> Err]
    ELSE IF o.io # "ok"
    THEN [act |-> "keep", kind |-> o.io, res |-> Err]
    ELSE LET res == parse_reply(d, o.reply)
         IN  IF res.ok THEN [act |-> "replace", kind |-> "ok", res |-> res]
             ELSE [act |-> "keep",
                   kind |-> IF o.reply.t \in {"invalid", "bad_signature"}
                            THEN "invalid" ELSE "data",
                   res |-> Err]

----------------------------------------------------------------------------
(* Query API *)

\* the fuzzy rule of get_window_count and get_windows_for_app
fuzzy_match(stored, app_id_lower) ==
    \/ to_lowercase(stored) = app_id_lower
    \/ contains(to_lowercase(stored), app_id_lower)
    \/ contains(app_id_lower, to_lowercase(stored))

\* a scan that matches only a stored key that contains the query
get_window_count_one_way(counts, app_id) ==
    IF app_id \in DOMAIN counts THEN {counts[app_id]}
    ELSE LET hits == {k \in DOMAIN counts :
                         contains(to_lowercase(k), to_lowercase(app_id))}
         IN  IF hits = {} THEN {0} ELSE {counts[k] : k \in hits}

\* get_window_count: the values it can return; the scan returns the first
\* matching key in the map's iteration order, which is any matching key
get_window_count(counts, app_id) ==
    IF app_id \in DOMAIN counts THEN {counts[app_id]}
    ELSE LET hits == {k \in DOMAIN counts : fuzzy_match(k, to_lowercase(app_id))}
         IN  IF hits = {} THEN {0} ELSE {counts[k] : k \in hits}

\* windows.iter().filter(..).cloned().collect() from position i on: the
\* records whose app_id matches, in stored order
\* a filter that collects the matching records in reverse order
RECURSIVE FilterSeq_reversed(_, _, _)
FilterSeq_reversed(l, i, app_id_lower) ==
    IF i > Len(l) THEN <<>>
    ELSE FilterSeq_reversed(l, i + 1, app_id_lower)
         \o (IF fuzzy_match(l[i].app_id, app_id_lower) THEN <<l[i]>> ELSE <<>>)

RECURSIVE FilterSeq(_, _, _)
FilterSeq(l, i, app_id_lower) ==
    IF i > Len(l) THEN <<>>
    ELSE (IF fuzzy_match(l[i].app_id, app_id_lower) THEN <<l[i]>> ELSE <<>>)
         \o FilterSeq(l, i + 1, app_id_lower)

\* a filter that keeps only the records whose app_id is the query, letter
\* case ignored
get_windows_for_app_exact(ws, app_id) ==
    SelectSeq(ws, LAMBDA w : to_lowercase(w.app_id) = to_lowercase(app_id))

get_windows_for_app(ws, app_id) == FilterSeq(ws, 1, to_lowercase(app_id))

get_all_windows(ws) == ws

\* the arguments of the query calls and of set_window_count
Queries == {s_Firefox, s_firefox, s_code, s_kitty, s_fire, s_firefox_esr}
SetKeys == {s_Firefox, s_firefox_esr}
SetCounts == {0, 3}

----------------------------------------------------------------------------
(* State machine *)

Op(op, kind, reply) == [op |-> op, kind |-> kind, reply |-> reply]

\* history of a storing step of a poll: also the place the poll had in the
\* queue of dispatched polls, which is kept in dispatch order
OpPoll(op, kind, reply, index) ==
    [op |-> op, kind |-> kind, reply |-> reply, index |-> index]

\* history of a poll that ended without storing: also the D-Bus method
\* calls it issued
OpEnd(op, kind, reply, calls) ==
    [op |-> op, kind |-> kind, reply |-> reply, calls |-> calls]

\* history of a set_window_count call: its arguments, and whether the call
\* before it was set_window_count of the same app_id with a count >= 1
OpSet(app_id, count, after_set) ==
    [op |-> "set_window_count", kind |-> "", reply |-> NoReply,
     app_id |-> app_id, count |-> count, after_set |-> after_set]

AfterSet(l, app_id) ==
    l.op = "set_window_count" /\ l.app_id = app_id /\ l.count >= 1

Task(stage, reply, window_list) ==
    [stage |-> stage, reply |-> reply, window_list |-> window_list]

Spawned == Task("spawned", NoReply, <<>>)

RemoveAt(q, i) == SubSeq(q, 1, i - 1) \o SubSeq(q, i + 1, Len(q))

\* the main loop is between two callbacks: no future is inside the
\* synchronous tail of a poll
MainLoopIdle ==
    /\ main_thread = "idle"
    /\ \A i \in 1..Len(tasks) : tasks[i].stage # "commit"

\* a poll that takes the registry locks before its I/O and keeps them
\* until it ends
HeldLocks_across_io(task) ==
    IF task.stage = "io" THEN {"app_window_counts", "windows"} ELSE {}

\* the registry locks a poll holds between two of its steps: each guard is
\* a temporary of the statement that stores through it, so none outlives
\* its statement and none is held at an await
HeldLocks(task) == {}

\* lock().unwrap() on a registry mutex returns at once
LocksFree == \A i \in 1..Len(tasks) : HeldLocks(tasks[i]) = {}

\* WindowTracker::new
Init ==
    /\ env \in Environments
    /\ desktop = detect_desktop_environment(env)
    /\ running = FALSE
    /\ windows = <<>>
    /\ app_window_counts = EmptyMap
    /\ timers = 0
    /\ tasks = <<>>
    /\ main_thread = "idle"
    /\ overridden = {}
    /\ lastOp = Op("new", "", NoReply)

\* start() without the early return for a running tracker
start_reentrant ==
    /\ MainLoopIdle
    /\ desktop # "Unknown" => (timers < MaxTimers /\ Len(tasks) < MaxInFlight)
    /\ running' = TRUE
    /\ main_thread' = "start"
    /\ lastOp' = Op("start", IF running THEN "already_running" ELSE "started", NoReply)
    /\ UNCHANGED <<env, desktop, windows, app_window_counts, timers, tasks,
                   overridden>>

\* start() up to drop(running): called on the main thread, which owns the
\* main context its futures and timers are attached to. It returns at once
\* when already running; otherwise it sets the flag and releases its lock
start ==
    /\ MainLoopIdle
    /\ IF running
       THEN /\ lastOp' = Op("start", "already_running", NoReply)
            /\ UNCHANGED <<running, main_thread>>
       ELSE /\ desktop # "Unknown" =>
                   (timers < MaxTimers /\ Len(tasks) < MaxInFlight)
            /\ running' = TRUE
            /\ main_thread' = "start"
            /\ lastOp' = Op("start", "started", NoReply)
    /\ UNCHANGED <<env, desktop, windows, app_window_counts, timers, tasks,
                   overridden>>

\* the rest of start() whose Unknown arm starts a backend like the other
\* arms
start_tracking_unknown ==
    /\ main_thread = "start"
    /\ timers < MaxTimers
    /\ Len(tasks) < MaxInFlight
    /\ tasks' = Append(tasks, Spawned)
    /\ timers' = timers + 1
    /\ main_thread' = "idle"
    /\ lastOp' = Op("start_tracking", "", NoReply)
    /\ UNCHANGED <<env, desktop, running, windows, app_window_counts, overridden>>

\* the rest of start(): it locks desktop and, for a known backend, spawns
\* the initial poll and installs the periodic timer
\* (start_<backend>_tracking)
start_tracking ==
    /\ main_thread = "start"
    /\ IF desktop = "Unknown"
       THEN UNCHANGED <<timers, tasks>>
       ELSE /\ tasks' = Append(tasks, Spawned)
            /\ timers' = timers + 1
    /\ main_thread' = "idle"
    /\ lastOp' = Op("start_tracking", "", NoReply)
    /\ UNCHANGED <<env, desktop, running, windows, app_window_counts, overridden>>

\* stop() that also empties the registry
stop_clearing ==
    /\ running' = FALSE
    /\ windows' = <<>>
    /\ app_window_counts' = EmptyMap
    /\ lastOp' = Op("stop", "", NoReply)
    /\ UNCHANGED <<env, desktop, timers, tasks, main_thread, overridden>>

\* stop() that also forgets the detected backend
stop_resets_backend ==
    /\ running' = FALSE
    /\ desktop' = "Unknown"
    /\ lastOp' = Op("stop", "", NoReply)
    /\ UNCHANGED <<env, windows, app_window_counts, timers, tasks, main_thread,
                   overridden>>

\* stop(), from any thread that holds the tracker or a clone of it
stop ==
    /\ running' = FALSE
    /\ lastOp' = Op("stop", "", NoReply)
    /\ UNCHANGED <<env, desktop, windows, app_window_counts, timers, tasks,
                   main_thread, overridden>>

\* a timer closure that returns Continue also when the flag is cleared
timer_tick_continue ==
    /\ MainLoopIdle
    /\ timers > 0
    /\ IF ~running
       THEN /\ lastOp' = Op("tick", "break", NoReply)
            /\ UNCHANGED main_thread
       ELSE /\ Len(tasks) < MaxInFlight
            /\ main_thread' = "tick"
            /\ lastOp' = Op("tick", "running", NoReply)
    /\ UNCHANGED <<env, desktop, running, windows, app_window_counts, timers,
                   tasks, overridden>>

\* the closure given to timeout_add_seconds_local, up to the return of
\* is_running(): with the flag cleared it returns Break and the main loop
\* removes the timer
timer_tick ==
    /\ MainLoopIdle
    /\ timers > 0
    /\ IF ~running
       THEN /\ timers' = timers - 1
            /\ lastOp' = Op("tick", "break", NoReply)
            /\ UNCHANGED main_thread
       ELSE /\ Len(tasks) < MaxInFlight
            /\ main_thread' = "tick"
            /\ lastOp' = Op("tick", "running", NoReply)
            /\ UNCHANGED timers
    /\ UNCHANGED <<env, desktop, running, windows, app_window_counts, tasks,
                   overridden>>

\* a timer closure that dispatches a poll and returns Break
timer_tick_spawn_one_shot ==
    /\ main_thread = "tick"
    /\ tasks' = Append(tasks, Spawned)
    /\ timers' = timers - 1
    /\ main_thread' = "idle"
    /\ lastOp' = Op("tick_spawn", "continue", NoReply)
    /\ UNCHANGED <<env, desktop, running, windows, app_window_counts, overridden>>

\* the rest of the closure: it spawns a poll and returns Continue
timer_tick_spawn ==
    /\ main_thread = "tick"
    /\ tasks' = Append(tasks, Spawned)
    /\ main_thread' = "idle"
    /\ lastOp' = Op("tick_spawn", "continue", NoReply)
    /\ UNCHANGED <<env, desktop, running, windows, app_window_counts, timers,
                   overridden>>

\* the main loop first polls a spawned future: the poll runs up to its
\* first pending await
poll_begin(i) ==
    /\ UNCHANGED main_thread
    /\ MainLoopIdle
    /\ tasks[i].stage = "spawned"
    /\ tasks' = [tasks EXCEPT ![i] = Task("io", NoReply, <<>>)]
    /\ lastOp' = Op("poll_begin", "", NoReply)
    /\ UNCHANGED <<env, desktop, running, windows, app_window_counts, timers,
                   overridden>>

\* a poll that patches the old count map with the new counts instead of
\* replacing it
poll_complete_patch(i, o) ==
    /\ UNCHANGED main_thread
    /\ MainLoopIdle
    /\ tasks[i].stage = "io"
    /\ LET p == poll_windows(desktop, o)
       IN  IF p.act = "replace"
           THEN /\ app_window_counts' =
                     [k \in (DOMAIN app_window_counts) \cup (DOMAIN p.res.counts) |->
                         IF k \in DOMAIN p.res.counts THEN p.res.counts[k]
                         ELSE app_window_counts[k]]
                /\ overridden' = {}
                /\ tasks' = [tasks EXCEPT ![i] = Task("commit", o.reply, p.res.window_list)]
                /\ lastOp' = OpPoll("poll_counts", o.io, o.reply, i)
           ELSE /\ tasks' = RemoveAt(tasks, i)
                /\ lastOp' = OpEnd(IF p.kind = "kde_done" THEN "poll_done" ELSE "poll_failed",
                                 o.io, o.reply, kde_calls(desktop, o.io))
                /\ UNCHANGED <<app_window_counts, overridden>>
    /\ UNCHANGED <<env, desktop, running, windows, timers>>

\* the poll's I/O ends with outcome o; on a parsed reply the poll stores the
\* new count map (first lock), otherwise it returns. A panic unwinds out of
\* the future, past the caller that logs an Err, into the main loop's
\* dispatch, which drops the future
poll_complete(i, o) ==
    /\ UNCHANGED main_thread
    /\ MainLoopIdle
    /\ tasks[i].stage = "io"
    /\ LET p == poll_windows(desktop, o)
       IN  IF p.act = "replace"
           THEN /\ app_window_counts' = p.res.counts
                /\ overridden' = {}
                /\ tasks' = [tasks EXCEPT ![i] = Task("commit", o.reply, p.res.window_list)]
                /\ lastOp' = OpPoll("poll_counts", o.io, o.reply, i)
           ELSE IF p.act = "panic"
           THEN /\ tasks' = RemoveAt(tasks, i)
                /\ lastOp' = OpEnd("poll_panicked", o.io, o.reply, <<>>)
                /\ UNCHANGED <<app_window_counts, overridden>>
           ELSE /\ tasks' = RemoveAt(tasks, i)
                /\ lastOp' = OpEnd(IF p.kind = "kde_done" THEN "poll_done" ELSE "poll_failed",
                                 o.io, o.reply, kde_calls(desktop, o.io))
                /\ UNCHANGED <<app_window_counts, overridden>>
    /\ UNCHANGED <<env, desktop, running, windows, timers>>

\* the second lock of the replace: the poll stores the window list and ends
poll_store_windows(i) ==
    /\ UNCHANGED main_thread
    /\ tasks[i].stage = "commit"
    /\ windows' = tasks[i].window_list
    /\ tasks' = RemoveAt(tasks, i)
    /\ lastOp' = OpPoll("poll_windows", "ok", tasks[i].reply, i)
    /\ UNCHANGED <<env, desktop, running, app_window_counts, timers, overridden>>

\* set_window_count that inserts whatever count it is given
set_window_count_stores_zero(app_id, count) ==
    /\ UNCHANGED main_thread
    /\ app_window_counts' = MapInsert(app_window_counts, app_id, count)
    /\ overridden' = overridden \cup {app_id}
    /\ lastOp' = OpSet(app_id, count, AfterSet(lastOp, app_id))
    /\ UNCHANGED <<env, desktop, running, windows, timers, tasks>>

\* set_window_count that keeps the count of a key already stored
\* (entry(app_id).or_insert(count))
set_window_count_or_insert(app_id, count) ==
    /\ UNCHANGED main_thread
    /\ app_window_counts' = IF count = 0 THEN MapRemove(app_window_counts, app_id)
                            ELSE IF app_id \in DOMAIN app_window_counts
                                 THEN app_window_counts
                            ELSE MapInsert(app_window_counts, app_id, count)
    /\ overridden' = overridden \cup {app_id}
    /\ lastOp' = OpSet(app_id, count, AfterSet(lastOp, app_id))
    /\ UNCHANGED <<env, desktop, running, windows, timers, tasks>>

\* set_window_count that does nothing for count 0
set_window_count_keeps(app_id, count) ==
    /\ UNCHANGED main_thread
    /\ app_window_counts' = IF count = 0 THEN app_window_counts
                            ELSE MapInsert(app_window_counts, app_id, count)
    /\ overridden' = overridden \cup {app_id}
    /\ lastOp' = OpSet(app_id, count, AfterSet(lastOp, app_id))
    /\ UNCHANGED <<env, desktop, running, windows, timers, tasks>>

\* set_window_count that with count 0 removes every key the fuzzy rule
\* matches
set_window_count_fuzzy(app_id, count) ==
    /\ UNCHANGED main_thread
    /\ LocksFree
    /\ app_window_counts' =
          IF count = 0
          THEN [k \in {j \in DOMAIN app_window_counts :
                          ~fuzzy_match(j, to_lowercase(app_id))} |->
                   app_window_counts[k]]
          ELSE MapInsert(app_window_counts, app_id, count)
    /\ overridden' = overridden \cup {app_id}
    /\ lastOp' = OpSet(app_id, count, AfterSet(lastOp, app_id))
    /\ UNCHANGED <<env, desktop, running, windows, timers, tasks>>

\* set_window_count(app_id, count), from any thread that holds the tracker
\* or a clone of it
set_window_count(app_id, count) ==
    /\ UNCHANGED main_thread
    /\ LocksFree
    /\ app_window_counts' = IF count = 0 THEN MapRemove(app_window_counts, app_id)
                            ELSE MapInsert(app_window_counts, app_id, count)
    /\ overridden' = overridden \cup {app_id}
    /\ lastOp' = OpSet(app_id, count, AfterSet(lastOp, app_id))
    /\ UNCHANGED <<env, desktop, running, windows, timers, tasks>>

\* a reader (the UI's refresh timer, or a clone of the tracker on another
\* thread) calls the query operations; it takes each lock for the length
\* of one read and changes nothing
query ==
    /\ UNCHANGED main_thread
    /\ LocksFree
    /\ lastOp' = Op("query", "", NoReply)
    /\ UNCHANGED <<env, desktop, running, windows, app_window_counts, timers,
                   tasks, overridden>>

Next ==
    \/ start
    \/ start_tracking
    \/ stop
    \/ timer_tick
    \/ timer_tick_spawn
    \/ \E i \in 1..Len(tasks) : poll_begin(i)
    \/ \E i \in 1..Len(tasks) : \E o \in Outcomes(desktop) : poll_complete(i, o)
    \/ \E i \in 1..Len(tasks) : poll_store_windows(i)
    \/ \E a \in SetKeys : \E n \in SetCounts : set_window_count(a, n)
    \/ query

Spec == Init /\ [][Next]_vars

\* the scheduling the main loop and the executing thread provide: an
\* installed timer keeps firing, the main thread goes on inside start()
\* and inside a timer closure, and a poll that stored its count map goes on
\* to store its window list
FairSpec ==
    /\ Spec
    /\ WF_vars(timer_tick)
    /\ WF_vars(timer_tick_spawn)
    /\ WF_vars(start_tracking)
    /\ WF_vars(\E i \in 1..Len(tasks) : poll_store_windows(i))

\* FairSpec with a peer that answers: a spawned poll is run by the main
\* loop, and its I/O ends
FairSpecPolls ==
    /\ FairSpec
    /\ WF_vars(\E i \in 1..Len(tasks) : poll_begin(i))
    /\ WF_vars(\E i \in 1..Len(tasks) : \E o \in Outcomes(desktop) : poll_complete(i, o))

----------------------------------------------------------------------------
(* Detection on its own: the environment before the tracker is built, then *)
(* WindowTracker::new                                                      *)

InitDetect ==
    /\ env \in EnvSpace
    /\ desktop = "unset"
    /\ running = FALSE
    /\ windows = <<>>
    /\ app_window_counts = EmptyMap
    /\ timers = 0
    /\ tasks = <<>>
    /\ main_thread = "idle"
    /\ overridden = {}
    /\ lastOp = Op("env", "", NoReply)

new ==
    /\ lastOp.op = "env"
    /\ desktop' = detect_desktop_environment(env)
    /\ lastOp' = Op("new", "", NoReply)
    /\ UNCHANGED <<env, running, windows, app_window_counts, timers, tasks,
                   main_thread, overridden>>

NextDetect == new

SpecDetect == InitDetect /\ [][NextDetect]_vars

----------------------------------------------------------------------------
(* The Sway exchange byte by byte: what a poll writes to the socket and    *)
(* what it reads from the bytes the peer delivers before it closes         *)

\* the byte order of the build's target
Endians == {"little", "big"}

\* u32::to_ne_bytes
to_ne_bytes(endian, n) ==
    LET le == <<n % 256, (n \div 256) % 256, (n \div 65536) % 256,
                (n \div 16777216) % 256>>
    IN  IF endian = "little" THEN le ELSE <<le[4], le[3], le[2], le[1]>>

\* u32::from_ne_bytes
from_ne_bytes(endian, b) ==
    IF endian = "little"
    THEN b[1] + 256 * b[2] + 65536 * b[3] + 16777216 * b[4]
    ELSE b[4] + 256 * b[3] + 65536 * b[2] + 16777216 * b[1]

\* the four write_all calls: magic, payload length, message type, payload
sway_request(endian) ==
    LET magic == s_i3_ipc
        msg_type == 4
        payload == <<>>
    IN  magic \o to_ne_bytes(endian, Len(payload)) \o to_ne_bytes(endian, msg_type)
        \o payload

\* a read that takes every byte up to the end of the stream
read_to_end(stream, pos, n) ==
    IF pos + n <= Len(stream)
    THEN [ok |-> TRUE, buf |-> SubSeq(stream, pos + 1, Len(stream)),
          pos |-> Len(stream)]
    ELSE [ok |-> FALSE, buf |-> <<>>, pos |-> Len(stream)]

\* AsyncReadExt::read_exact into a buffer of n bytes, from position pos of
\* the stream: the n bytes, or UnexpectedEof when the stream ends first
read_exact(stream, pos, n) ==
    IF pos + n <= Len(stream)
    THEN [ok |-> TRUE, buf |-> SubSeq(stream, pos + 1, pos + n), pos |-> pos + n]
    ELSE [ok |-> FALSE, buf |-> <<>>, pos |-> Len(stream)]

\* the JSON texts of the model: {}, [] and
\* {"type":"con","app_id":"A","id":4}
b_object == <<123, 125>>
b_array == <<91, 93>>
b_leaf == <<123, 34, 116, 121, 112, 101, 34, 58, 34, 99, 111, 110, 34, 44,
            34, 97, 112, 112, 95, 105, 100, 34, 58, 34, 65, 34, 44,
            34, 105, 100, 34, 58, 52, 125>>

\* String::from_utf8 on bytes that are ASCII or 255
from_utf8(body) ==
    IF \A k \in 1..Len(body) : body[k] < 128 THEN Some(body) ELSE None

\* serde_json::from_str::<SwayNode> on the texts of the model: the two
\* objects, with serde's defaults for the fields they lack, and the empty
\* array; every other text of the model is no JSON document
sway_from_str(json) ==
    IF json = b_object
    THEN JsonObject(SwayNode(None, None, None, 0, FALSE, <<>>, <<>>))
    ELSE IF json = b_array
    THEN JsonArray(<<>>)
    ELSE IF json = b_leaf
    THEN JsonObject(SwayNode(Some(s_con), Some(s_A), None, 4, FALSE, <<>>, <<>>))
    ELSE JsonInvalid

\* a reply together with the record of the exchange that produced it
Exchanged(reply, endian, stream, sent, consumed) ==
    [f \in (DOMAIN reply) \cup {"wire"} |->
        IF f = "wire"
        THEN [endian |-> endian, stream |-> stream, sent |-> sent,
              consumed |-> consumed]
        ELSE reply[f]]

\* poll_sway_windows from the first write_all to the parse: the outcome of
\* the exchange when the peer delivers stream and closes
poll_sway_io(endian, stream) ==
    LET sent == sway_request(endian)
        header == read_exact(stream, 0, 14)
    IN  IF ~header.ok
        THEN Outcome("short_read",
                     Exchanged(NoReply, endian, stream, sent, header.pos))
        ELSE LET len == from_ne_bytes(endian, SubSeq(header.buf, 7, 10))
                 body == read_exact(stream, header.pos, len)
             IN  IF ~body.ok
                 THEN Outcome("short_read",
                              Exchanged(NoReply, endian, stream, sent, body.pos))
                 ELSE LET json == from_utf8(body.buf)
                      IN  Outcome("ok",
                                  Exchanged(IF json.some THEN sway_from_str(json.v)
                                            ELSE JsonInvalid,
                                            endian, stream, sent, body.pos))

\* a response header as a peer of the given byte order writes it
sway_header(endian, len) ==
    s_i3_ipc \o to_ne_bytes(endian, len) \o to_ne_bytes(endian, 4)

\* what the peer delivers: nothing; ten bytes of a header; and, from peers
\* of either byte order, a full reply with a window, a reply cut inside
\* its payload, the empty object, the empty object followed by one more
\* byte, the empty array, a payload that is no JSON, an empty payload, a
\* payload that is no UTF-8
WireStreams ==
    { <<>>, SubSeq(sway_header("little", 2), 1, 10) }
    \cup UNION { { sway_header(e, Len(b_leaf)) \o b_leaf,
                   sway_header(e, Len(b_leaf)) \o SubSeq(b_leaf, 1, 10),
                   sway_header(e, 2) \o b_object,
                   sway_header(e, 2) \o b_object \o <<120>>,
                   sway_header(e, 2) \o b_array,
                   sway_header(e, 1) \o <<123>>,
                   sway_header(e, 0),
                   sway_header(e, 2) \o <<255, 255>> } : e \in Endians }

\* WindowTracker::new in a Sway session, on a target of either byte order
InitWire ==
    /\ env \in {[HYPRLAND_INSTANCE_SIGNATURE |-> None, SWAYSOCK |-> Some(s_t),
                  XDG_CURRENT_DESKTOP |-> None, XDG_SESSION_DESKTOP |-> None,
                  target_endian |-> e] : e \in Endians}
    /\ desktop = detect_desktop_environment(env)
    /\ running = FALSE
    /\ windows = <<>>
    /\ app_window_counts = EmptyMap
    /\ timers = 0
    /\ tasks = <<>>
    /\ main_thread = "idle"
    /\ overridden = {}
    /\ lastOp = Op("new", "", NoReply)

NextWire ==
    \/ start
    \/ start_tracking
    \/ timer_tick
    \/ timer_tick_spawn
    \/ \E i \in 1..Len(tasks) : poll_begin(i)
    \/ \E i \in 1..Len(tasks) : \E stream \in WireStreams :
           poll_complete(i, poll_sway_io(env.target_endian, stream))
    \/ \E i \in 1..Len(tasks) : poll_store_windows(i)

SpecWire == InitWire /\ [][NextWire]_vars

----------------------------------------------------------------------------
(* Sway parsing on its own: a Sway session's first poll, its get_tree      *)
(* reply drawn from a family of trees                                      *)

\* the type tags and app_ids a node of the reply can carry
SwayTypes == {None, Some(s_con), Some(s_workspace)}
SwayAppIds == {None, Some(s_empty), Some(s_A), Some(s_B)}

SwayLeaves(id) ==
    {SwayNode(t, a, Some(s_t), id, FALSE, <<>>, <<>>) :
        t \in SwayTypes, a \in SwayAppIds}

\* an output, workspace or split container
SwayInner(id, nodes, floating_nodes) ==
    SwayNode(Some(s_workspace), None, None, id, FALSE, nodes, floating_nodes)

\* the places two nodes x and y can take below the root: side by side, one
\* in each child list, three levels deep under either list, in separate
\* branches, and y as a child of x
SwayShapes(x, y) ==
    { SwayInner(1, <<x, y>>, <<>>),
      SwayInner(1, <<x>>, <<y>>),
      SwayInner(1, <<SwayInner(2, <<SwayInner(3, <<x>>, <<y>>)>>, <<>>)>>, <<>>),
      SwayInner(1, <<>>, <<SwayInner(2, <<>>, <<SwayInner(3, <<>>, <<x, y>>)>>)>>),
      SwayInner(1, <<SwayInner(2, <<x>>, <<>>)>>, <<SwayInner(3, <<>>, <<y>>)>>),
      SwayInner(1, <<[x EXCEPT !.nodes = <<y>>]>>, <<>>) }

SwayTrees ==
    UNION {SwayShapes(x, y) : x \in SwayLeaves(4), y \in SwayLeaves(5)}

InitSway ==
    /\ Init
    /\ desktop = "Sway"

NextSway ==
    \/ start
    \/ start_tracking
    \/ \E i \in 1..Len(tasks) : poll_begin(i)
    \/ \E i \in 1..Len(tasks) : \E t \in SwayTrees :
           poll_complete(i, Outcome("ok", JsonObject(t)))
    \/ \E i \in 1..Len(tasks) : poll_store_windows(i)

SpecSway == InitSway /\ [][NextSway]_vars

----------------------------------------------------------------------------
(* Hyprland parsing on its own: a Hyprland session's first poll, its       *)
(* j/clients reply drawn from the client arrays of up to MaxClients        *)
(* elements                                                                *)

MaxClients == 3

HyprClasses == {s_A, s_B, s_code, s_code_oss}

\* what the clients of one array carry under "workspace": nothing, an
\* integer, or the object Hyprland reports
HyprWorkspaces == {None, Some(JsonInt(1)), HyprWorkspace}

\* the client array with the given classes and workspace, the i-th address
\* "0x<i>"
HyprClientsOf(classes, workspace) ==
    [i \in 1..Len(classes) |->
        HyprClient(Some(<<48, 120, 48 + i>>), Some(s_t), Some(classes[i]), workspace)]

HyprArrays ==
    UNION {{HyprClientsOf(c, w) : c \in [1..n -> HyprClasses], w \in HyprWorkspaces}
           : n \in 0..MaxClients}

InitHypr ==
    /\ Init
    /\ desktop = "Hyprland"

NextHypr ==
    \/ start
    \/ start_tracking
    \/ \E i \in 1..Len(tasks) : poll_begin(i)
    \/ \E i \in 1..Len(tasks) : \E a \in HyprArrays :
           poll_complete(i, Outcome("ok", JsonArray(a)))
    \/ \E i \in 1..Len(tasks) : poll_store_windows(i)

SpecHypr == InitHypr /\ [][NextHypr]_vars

----------------------------------------------------------------------------
(* Properties *)

\* the count map that the record sequence ws determines
DerivedCounts(ws) ==
    [a \in {ws[i].app_id : i \in 1..Len(ws)} |->
        Cardinality({i \in 1..Len(ws) : ws[i].app_id = a})]

InFlight == {i \in 1..Len(tasks) : tasks[i].stage \in {"io", "commit"}}

\* a reply that is invalid or lacks a required field: no JSON array of
\* objects with address, title and class (Hyprland), no JSON document that
\* reads as a node, which an array of up to seven elements does (Sway), no
\* id-to-properties map (GNOME)
Malformed(d, reply) ==
    CASE d = "Hyprland" ->
            \/ reply.t # "array"
            \/ \E i \in 1..Len(reply.items) :
                   None \in {reply.items[i].address, reply.items[i].title,
                             reply.items[i].class}
      [] d = "Sway" -> \/ reply.t \notin {"object", "array"}
                       \/ reply.t = "array" /\ Len(reply.items) > 7
      [] d = "GNOME" -> reply.t # "map"
      [] OTHER -> FALSE

\* l records the end of a poll of GNOME, Hyprland or Sway whose transport
\* failed or whose reply is malformed
PollFailure(d, l) ==
    /\ l.op \in {"poll_counts", "poll_failed"}
    /\ d \in {"GNOME", "Hyprland", "Sway"}
    /\ (l.kind # "ok" \/ Malformed(d, l.reply))

\* C1: a failed poll (transport not opened, interface absent, short read,
\* invalid reply, missing field) changes neither the record sequence nor the
\* count map, so every query returns what it returned before the poll.
C1_FailedPollKeepsRegistry ==
    [][PollFailure(desktop, lastOp') =>
          /\ get_all_windows(windows') = get_all_windows(windows)
          /\ app_window_counts' = app_window_counts
          /\ \A q \in Queries :
                get_window_count(app_window_counts', q)
                    = get_window_count(app_window_counts, q)]_vars

\* a poll failed while the registry held the snapshot of an earlier poll
C1_Witness ==
    /\ PollFailure(desktop, lastOp)
    /\ windows # <<>>
    /\ overridden = {}
    /\ app_window_counts = DerivedCounts(windows)

\* C2: in every reachable state in which no override followed the last
\* poll, the count map a reader can read is the one derived from the record
\* sequence it can read.
C2_CountsMatchRecords ==
    overridden = {} => app_window_counts = DerivedCounts(windows)

\* C3: right after a successful poll the record sequence is the one parsed
\* from the poll's reply, and the count map has exactly the app_ids of these
\* records as keys, each with the number of its records.
C3_FullSwap ==
    lastOp.op = "poll_windows" =>
        /\ get_all_windows(windows) = parse_reply(desktop, lastOp.reply).window_list
        /\ DOMAIN app_window_counts = {windows[i].app_id : i \in 1..Len(windows)}
        /\ \A a \in DOMAIN app_window_counts :
              app_window_counts[a]
                  = Cardinality({i \in 1..Len(windows) : windows[i].app_id = a})

\* a poll succeeded over a registry that held other keys
C3_Witness ==
    /\ lastOp.op = "poll_windows"
    /\ s_code \in DOMAIN app_window_counts
    /\ s_Firefox \notin DOMAIN app_window_counts
    /\ Len(windows) = 1

\* C4: a poll that completes while the running flag is cleared (stop() was
\* called after its dispatch) leaves the record sequence and the count map
\* as they were.
C4_StoppedPollDiscarded ==
    [][(~running /\ lastOp'.op \in {"poll_counts", "poll_windows"}) =>
          (windows' = windows /\ app_window_counts' = app_window_counts)]_vars

\* C5: at most one poll is in flight at any time.
C5_OnePollInFlight == Cardinality(InFlight) <= 1

\* C6: start() on a running tracker keeps the flag set, returns without
\* going on to start a backend, installs no timer, dispatches no poll and
\* leaves the registry unchanged.
C6_StartWhileRunningNoOp ==
    [][(running /\ lastOp'.op = "start") =>
          /\ running'
          /\ main_thread' = main_thread
          /\ timers' = timers
          /\ tasks' = tasks
          /\ windows' = windows
          /\ app_window_counts' = app_window_counts
          /\ desktop' = desktop]_vars

\* start() was called on a running tracker with its timer installed
C6_Witness ==
    /\ lastOp = Op("start", "already_running", NoReply)
    /\ running
    /\ timers > 0

C8_StopKeepsSnapshot ==
    [][lastOp'.op = "stop" =>
          /\ get_all_windows(windows') = get_all_windows(windows)
          /\ app_window_counts' = app_window_counts
          /\ desktop' = desktop
          /\ timers' = timers
          /\ tasks' = tasks
          /\ \A q \in Queries :
                /\ get_window_count(app_window_counts', q)
                       = get_window_count(app_window_counts, q)
                /\ get_windows_for_app(windows', q) = get_windows_for_app(windows, q)]_vars

\* stop() was called on a tracker that holds a snapshot
C8_Witness ==
    /\ lastOp.op = "stop"
    /\ ~running
    /\ windows # <<>>
    /\ app_window_counts # EmptyMap

\* no key of keys is q itself or fuzzy-matches q
Unrelated(keys, q) ==
    \A k \in keys : k # q /\ ~fuzzy_match(k, to_lowercase(q))

\* C9 as stated: with the Unknown backend no poll exists, the record sequence
\* is empty and get_window_count(x) = 0 for every x that was not itself
\* passed to set_window_count.
C9_UnknownNeverPopulates_Orig ==
    desktop = "Unknown" =>
        /\ tasks = <<>>
        /\ timers = 0
        /\ get_all_windows(windows) = <<>>
        /\ \A q \in Queries :
              q \notin overridden => get_window_count(app_window_counts, q) = {0}

\* C9 amended: with the Unknown backend no poll and no timer exists, the
\* record sequence is empty, every stored key was passed to
\* set_window_count, and get_window_count(x) = 0 for every x that neither
\* is nor fuzzy-matches a key passed to set_window_count.
C9_UnknownNeverPopulates ==
    desktop = "Unknown" =>
        /\ tasks = <<>>
        /\ timers = 0
        /\ get_all_windows(windows) = <<>>
        /\ DOMAIN app_window_counts \subseteq overridden
        /\ \A q \in Queries :
              Unrelated(overridden, q) => get_window_count(app_window_counts, q) = {0}

\* the tracker runs with the Unknown backend, an override is stored and a
\* query for an unrelated app is answered
C9_Witness ==
    /\ desktop = "Unknown"
    /\ running
    /\ lastOp.op = "query"
    /\ s_Firefox \in DOMAIN app_window_counts
    /\ Unrelated(overridden, s_kitty)

\* s holds word (given in lower case) in some letter case
HasAnyCase(s, word) ==
    \E i \in 0..(Len(s) - Len(word)) :
        \A j \in 1..Len(word) : s[i + j] = word[j] \/ s[i + j] = word[j] - 32

NamesKde(e) ==
    \E n \in {unwrap_or_default(e.XDG_CURRENT_DESKTOP),
              unwrap_or_default(e.XDG_SESSION_DESKTOP)} :
        HasAnyCase(n, s_kde) \/ HasAnyCase(n, s_plasma)

NamesGnome(e) ==
    \E n \in {unwrap_or_default(e.XDG_CURRENT_DESKTOP),
              unwrap_or_default(e.XDG_SESSION_DESKTOP)} :
        HasAnyCase(n, s_gnome)

\* C10: the backend chosen by new() is Hyprland when the Hyprland signature
\* is set; else Sway when SWAYSOCK is set; else KDE when a desktop name
\* holds "kde" or "plasma" in any letter case (also next to "gnome"); else
\* GNOME when one holds "gnome"; else Unknown.
C10_DetectionOrder ==
    lastOp.op = "new" =>
        desktop = IF env.HYPRLAND_INSTANCE_SIGNATURE # None THEN "Hyprland"
                  ELSE IF env.SWAYSOCK # None THEN "Sway"
                  ELSE IF NamesKde(env) THEN "KDE"
                  ELSE IF NamesGnome(env) THEN "GNOME"
                  ELSE "Unknown"

\* a session whose desktop name holds both "gnome" and "kde" was detected
C10_Witness ==
    /\ lastOp.op = "new"
    /\ desktop = "KDE"
    /\ NamesGnome(env)

\* C11: no step changes the backend kind, and a start() that takes effect
\* goes on to dispatch by it: nothing for Unknown, one initial poll and one
\* timer for every other kind.
C11_BackendImmutable ==
    /\ [][desktop' = desktop]_vars
    /\ [][(~running /\ lastOp'.op = "start") => main_thread' = "start"]_vars
    /\ [][main_thread = "start" =>
             \/ main_thread' = "start" /\ tasks' = tasks /\ timers' = timers
             \/ /\ main_thread' = "idle"
                /\ IF desktop = "Unknown"
                   THEN tasks' = tasks /\ timers' = timers
                   ELSE Len(tasks') = Len(tasks) + 1 /\ timers' = timers + 1]_vars

\* a known backend after start, a stored poll, an override, stop and the
\* timer's last tick
C11_Witness ==
    /\ desktop \in {"GNOME", "Hyprland", "Sway"}
    /\ windows # <<>>
    /\ overridden # {}
    /\ ~running
    /\ lastOp = Op("tick", "break", NoReply)

\* C12: every value stored in the count map is at least 1.
C12_NoZeroCount ==
    \A k \in DOMAIN app_window_counts : app_window_counts[k] >= 1

\* set_window_count(x, 0) was applied to a stored key while another key
\* stays stored
C12_Witness ==
    /\ lastOp.op = "set_window_count"
    /\ lastOp.count = 0
    /\ lastOp.after_set
    /\ lastOp.app_id \notin DOMAIN app_window_counts
    /\ app_window_counts # EmptyMap

\* C13: no key stored in the count map holds an upper-case letter.
C13_KeysLowerCase ==
    \A k \in DOMAIN app_window_counts : \A i \in 1..Len(k) : k[i] \notin 65..90

\* two code points are the same letter in either case, or equal
CIEq(a, b) ==
    \/ a = b
    \/ a \in 65..90 /\ b = a + 32
    \/ b \in 65..90 /\ a = b + 32

\* needle occurs in hay when letter case is ignored
CIContains(hay, needle) ==
    \E i \in 0..(Len(hay) - Len(needle)) :
        \A j \in 1..Len(needle) : CIEq(hay[i + j], needle[j])

\* the fuzzy rule as the interface states it: ignoring case, either string
\* contains the other
CIMatch(a, b) == CIContains(a, b) \/ CIContains(b, a)

\* a and b differ in letter case at most
SameIgnoringCase(a, b) ==
    Len(a) = Len(b) /\ \A i \in 1..Len(a) : CIEq(a[i], b[i])

MatchingKeys(q) == {k \in DOMAIN app_window_counts : CIMatch(k, q)}

RegistryUnchanged ==
    /\ windows' = windows
    /\ app_window_counts' = app_window_counts
    /\ running' = running
    /\ desktop' = desktop

\* C14: get_window_count(q) is the count stored under q when q is a key;
\* otherwise the count of a stored key that matches q ignoring case with
\* either string containing the other; it is 0 exactly when q is no key and
\* no stored key matches; a query changes nothing.
C14_LookupRule ==
    /\ [](\A q \in Queries :
             LET R == get_window_count(app_window_counts, q)
                 M == MatchingKeys(q)
             IN  /\ R # {}
                 /\ q \in DOMAIN app_window_counts => R = {app_window_counts[q]}
                 /\ q \notin DOMAIN app_window_counts =>
                        \A r \in R : \/ r = 0 /\ M = {}
                                     \/ \E k \in M : r = app_window_counts[k]
                 /\ (0 \in R) <=> (q \notin DOMAIN app_window_counts /\ M = {}))
    /\ [][lastOp'.op = "query" => RegistryUnchanged]_vars

\* a query is answered from a key the query contains, while another query
\* matches nothing
C14_Witness ==
    /\ lastOp.op = "query"
    /\ DOMAIN app_window_counts = {s_Firefox, s_kitty}
    /\ get_window_count(app_window_counts, s_firefox_esr) = {app_window_counts[s_Firefox]}
    /\ get_window_count(app_window_counts, s_fire) = {app_window_counts[s_Firefox]}
    /\ get_window_count(app_window_counts, s_code) = {0}

\* C15: for every stored key k, get_window_count gives for every query that
\* differs from k in letter case only what it gives for k.
C15_CaseInsensitiveLookup ==
    \A k \in DOMAIN app_window_counts : \A q \in Queries :
        SameIgnoringCase(k, q) =>
            get_window_count(app_window_counts, q)
                = get_window_count(app_window_counts, k)

\* C16: right after set_window_count(x, n) with n >= 1, get_window_count(x)
\* is n.
C16_OverrideRoundTrip ==
    (lastOp.op = "set_window_count" /\ lastOp.count >= 1) =>
        get_window_count(app_window_counts, lastOp.app_id) = {lastOp.count}

\* an override was stored next to a key of another count that matches it
C16_Witness ==
    /\ lastOp.op = "set_window_count"
    /\ lastOp.count = 3
    /\ lastOp.app_id = s_firefox_esr
    /\ s_Firefox \in DOMAIN app_window_counts
    /\ app_window_counts[s_Firefox] = 2

\* C17 as stated: after set_window_count(x, n >= 1) and then
\* set_window_count(x, 0), x is no key of the map and get_window_count(x)
\* is 0.
C17_ZeroCountRemoval_Orig ==
    (lastOp.op = "set_window_count" /\ lastOp.count = 0 /\ lastOp.after_set) =>
        /\ lastOp.app_id \notin DOMAIN app_window_counts
        /\ get_window_count(app_window_counts, lastOp.app_id) = {0}

\* C17 amended: after set_window_count(x, n >= 1) and then
\* set_window_count(x, 0), x is no key of the map; get_window_count(x) is 0
\* when no remaining key matches x, and the count of a matching key
\* otherwise.
C17_ZeroCountRemoval ==
    (lastOp.op = "set_window_count" /\ lastOp.count = 0 /\ lastOp.after_set) =>
        LET x == lastOp.app_id
            R == get_window_count(app_window_counts, x)
        IN  /\ x \notin DOMAIN app_window_counts
            /\ MatchingKeys(x) = {} => R = {0}
            /\ MatchingKeys(x) # {} =>
                   R \subseteq {app_window_counts[k] : k \in MatchingKeys(x)}

\* the key was set and then removed while unrelated keys stay stored
C17_Witness ==
    /\ lastOp.op = "set_window_count"
    /\ lastOp.count = 0
    /\ lastOp.after_set
    /\ app_window_counts # EmptyMap
    /\ MatchingKeys(lastOp.app_id) = {}
    /\ get_window_count(app_window_counts, lastOp.app_id) = {0}

\* the positions of the stored records whose app_id matches q
MatchingPositions(q) == {i \in 1..Len(windows) : CIMatch(windows[i].app_id, q)}

\* the n-th smallest element of a set of positions
NthOf(P, n) == CHOOSE i \in P : Cardinality({j \in P : j < i}) = n - 1

\* C18: get_windows_for_app(q) is the sequence of the stored records whose
\* app_id matches q, each once and in stored order; get_all_windows() is
\* the stored sequence; a query changes nothing.
C18_WindowsForApp ==
    /\ [](\A q \in Queries :
             LET R == get_windows_for_app(windows, q)
                 P == MatchingPositions(q)
             IN  /\ Len(R) = Cardinality(P)
                 /\ \A n \in 1..Len(R) : R[n] = windows[NthOf(P, n)])
    /\ [](get_all_windows(windows) = windows)
    /\ [][lastOp'.op = "query" => RegistryUnchanged]_vars

\* a query matches two of three stored records
C18_Witness ==
    /\ lastOp.op = "query"
    /\ Len(windows) = 3
    /\ Len(get_windows_for_app(windows, s_firefox)) = 2
    /\ get_windows_for_app(windows, s_firefox)[1].id = s_0x1

\* every node of a tree
RECURSIVE NodesOf(_)
NodesOf(node) ==
    {node}
    \cup UNION {NodesOf(node.nodes[i]) : i \in 1..Len(node.nodes)}
    \cup UNION {NodesOf(node.floating_nodes[i]) : i \in 1..Len(node.floating_nodes)}

\* a window node as the interface defines it: a leaf container with a
\* non-empty app_id
Qualifying(n) ==
    n.node_type = Some(s_con) /\ n.app_id.some /\ n.app_id.v # s_empty

QualifyingNodes(tree) == {n \in NodesOf(tree) : Qualifying(n)}

CountOf(a) == IF a \in DOMAIN app_window_counts THEN app_window_counts[a] ELSE 0

\* C19: after a Sway poll, a node of the reply has a record if and only if
\* its type is "con" and its app_id is present and not empty, and the keys
\* of the count map are the app_ids of those nodes.
C19_SwayWindowRule ==
    (desktop = "Sway" /\ lastOp.op = "poll_windows") =>
        LET tree == lastOp.reply.node
        IN  /\ \A n \in NodesOf(tree) :
                   (\E i \in 1..Len(windows) : windows[i].id = to_string(n.id))
                       <=> Qualifying(n)
            /\ DOMAIN app_window_counts = {n.app_id.v : n \in QualifyingNodes(tree)}

\* C20: after a Sway poll, the number of records is the number of
\* qualifying nodes of the reply, and each app_id's count is the number of
\* qualifying nodes with that app_id, wherever in the tree they are.
C20_SwayTraversal ==
    (desktop = "Sway" /\ lastOp.op = "poll_windows") =>
        LET Q == QualifyingNodes(lastOp.reply.node)
        IN  /\ Len(windows) = Cardinality(Q)
            /\ \A a \in {s_empty, s_A, s_B, s_Firefox, s_kitty, s_code} :
                   CountOf(a) = Cardinality({n \in Q : n.app_id.v = a})

\* the sum of the values a map holds under the keys K
RECURSIVE SumOver(_, _)
SumOver(m, K) ==
    IF K = {} THEN 0
    ELSE LET k == CHOOSE x \in K : TRUE
         IN  m[k] + SumOver(m, K \ {k})

\* C21: after a Hyprland poll whose reply is an array of objects that each
\* have an address, a title and a class, there is one record per element of
\* the client array, in array order, with id = address and app_id = class; each
\* class's count is the number of elements with that class, and the counts
\* add up to the number of records.
C21_HyprlandParse ==
    (/\ desktop = "Hyprland"
     /\ lastOp.op \in {"poll_windows", "poll_failed"}
     /\ lastOp.kind = "ok"
     /\ ~Malformed(desktop, lastOp.reply)) =>
        LET items == lastOp.reply.items
            classes == {items[i].class.v : i \in 1..Len(items)}
        IN  /\ Len(windows) = Len(items)
            /\ \A i \in 1..Len(items) :
                   /\ windows[i].id = items[i].address.v
                   /\ windows[i].app_id = items[i].class.v
            /\ DOMAIN app_window_counts = classes
            /\ \A c \in classes :
                   app_window_counts[c]
                       = Cardinality({i \in 1..Len(items) : items[i].class.v = c})
            /\ SumOver(app_window_counts, DOMAIN app_window_counts) = Len(windows)

\* classes [A, A, B] were parsed into counts {A: 2, B: 1}
C21_Witness ==
    /\ desktop = "Hyprland"
    /\ lastOp.op = "poll_windows"
    /\ Len(windows) = 3
    /\ windows[1].app_id = s_A /\ windows[2].app_id = s_A /\ windows[3].app_id = s_B
    /\ app_window_counts = (s_A :> 2 @@ s_B :> 1)

\* a window entry whose property bag holds a string under "app-id"
HasAppId(e) == e.app_id.some /\ e.app_id.v.sig = "s"

\* C22: after a GNOME poll, an entry of the reply has a record if and only
\* if it has a string application identifier, and the count map holds for
\* each identifier the number of entries that carry it and no other key.
C22_GnomeDropsUnidentified ==
    (desktop = "GNOME" /\ lastOp.op = "poll_windows") =>
        LET entries == lastOp.reply.entries
            usable == {i \in 1..Len(entries) : HasAppId(entries[i])}
        IN  /\ \A i \in 1..Len(entries) :
                   (\E j \in 1..Len(windows) :
                        windows[j].id = to_string(entries[i].window_id))
                       <=> i \in usable
            /\ Len(windows) = Cardinality(usable)
            /\ DOMAIN app_window_counts = {entries[i].app_id.v.v : i \in usable}
            /\ \A a \in DOMAIN app_window_counts :
                   app_window_counts[a]
                       = Cardinality({i \in usable : entries[i].app_id.v.v = a})

\* C23: after a KDE poll that ended without error, through queryWindowInfo
\* or through the scripting fallback, get_window_count(c) is the number of
\* windows of class c that KWin holds.
C23_KdeCounts ==
    (desktop = "KDE" /\ lastOp.op \in {"poll_done", "poll_counts", "poll_windows"}
                     /\ lastOp.kind \in {"ok", "absent"}) =>
        LET classes == lastOp.reply.classes
        IN  \A c \in {s_Firefox, s_kitty, s_code} :
                get_window_count(app_window_counts, c)
                    = {Cardinality({i \in 1..Len(classes) : classes[i] = c})}

\* C24: no poll ends by unwinding out of its future, past the caller that
\* logs its failure; a failed poll leaves the running flag and the timer as
\* they were and ends only itself; while the tracker stays running the
\* timer then fires again and dispatches a poll; a poll that succeeds
\* afterwards stores its own result.
C24_FailureNotFatal ==
    /\ [](lastOp.op # "poll_panicked")
    /\ [][PollFailure(desktop, lastOp') =>
              /\ running' = running
              /\ timers' = timers
              /\ Len(tasks') = Len(tasks) - 1]_vars
    /\ [](running /\ desktop # "Unknown" /\ main_thread # "start" => timers >= 1)
    /\ (PollFailure(desktop, lastOp) /\ running)
           ~> (lastOp.op = "tick_spawn" \/ ~running)
    /\ [](lastOp.op = "poll_windows" =>
              windows = parse_reply(desktop, lastOp.reply).window_list)

\* a poll failed in a running tracker whose timer is installed
C24_Witness ==
    /\ PollFailure(desktop, lastOp)
    /\ lastOp.op = "poll_failed"
    /\ running
    /\ timers >= 1
    /\ tasks = <<>>

PollAwaitsIo == \E i \in 1..Len(tasks) : tasks[i].stage = "io"

\* C25: while a poll is connecting, writing or awaiting its reply, the
\* reading calls can complete, and so can set_window_count with any
\* argument; no step of the poll is needed first.
C25_QueriesNeverWait ==
    PollAwaitsIo =>
        /\ ENABLED query
        /\ \A a \in SetKeys : \A n \in SetCounts : ENABLED set_window_count(a, n)

\* an override was stored while two polls were awaiting their replies
C25_Witness ==
    /\ lastOp.op = "set_window_count"
    /\ lastOp.count = 3
    /\ Len(tasks) = 2
    /\ \A i \in 1..Len(tasks) : tasks[i].stage = "io"

\* C26: at most one periodic timer is installed at any time.
C26_OneTimer == timers <= 1

\* C27: a poll does not store its result right after a poll that was
\* dispatched later than it has stored its own.
C27_DispatchOrder ==
    [][~(/\ lastOp.op = "poll_windows"
         /\ lastOp'.op = "poll_counts"
         /\ lastOp'.index < lastOp.index)]_vars

\* C28: every poll begins in a state in which the running flag is set.
C28_PollOnlyWhileRunning ==
    [][lastOp'.op = "poll_begin" => running]_vars

\* the queries put to a registry that a Hyprland poll has filled
ParseQueries == {s_A, s_B, s_code, s_code_oss, s_cod}

\* C29 as stated: right after a successful poll, for every query q,
\* get_window_count(q) is the number of records get_windows_for_app(q)
\* returns.
C29_CountsAgreeWithRecords_Orig ==
    lastOp.op = "poll_windows" =>
        \A q \in ParseQueries :
            get_window_count(app_window_counts, q)
                = {Len(get_windows_for_app(windows, q))}

\* C29 amended: right after a successful poll, for every query q,
\* get_window_count(q) is the number of records get_windows_for_app(q)
\* returns when at most one stored app_id matches q; when several match it
\* is the count of one of them, so at most the number of records returned,
\* and it is 0 only when no record is returned.
C29_CountsAgreeWithRecords ==
    lastOp.op = "poll_windows" =>
        \A q \in ParseQueries :
            LET R == get_window_count(app_window_counts, q)
                F == get_windows_for_app(windows, q)
            IN  /\ Cardinality(MatchingKeys(q)) <= 1 => R = {Len(F)}
                /\ \A r \in R : r <= Len(F)
                /\ \A r \in R : \E k \in MatchingKeys(q) \cup {q} :
                       r = Cardinality({i \in 1..Len(windows) : windows[i].app_id = k})
                /\ (0 \in R) <=> (Len(F) = 0)

\* a poll stored one "code" and two "code-oss" windows: the count of "code"
\* is 1 while three records match it
C29_Witness ==
    /\ lastOp.op = "poll_windows"
    /\ app_window_counts = (s_code :> 1 @@ s_code_oss :> 2)
    /\ get_window_count(app_window_counts, s_code) = {1}
    /\ Len(get_windows_for_app(windows, s_code)) = 3
    /\ get_window_count(app_window_counts, s_A) = {0}

\* C30: for every content of the count map and every query,
\* get_window_count has one possible result.
C30_LookupDeterministic ==
    \A q \in Queries \cup ParseQueries :
        Cardinality(get_window_count(app_window_counts, q)) = 1

\* the stored app_ids that are not empty and match q
NonEmptyMatches(q) ==
    {k \in (DOMAIN app_window_counts) \cup {windows[i].app_id : i \in 1..Len(windows)} :
        k # s_empty /\ CIMatch(k, q)}

\* C31: a query that matches no non-empty stored app_id gets the count 0
\* and no record, and the empty query gets the count 0 when no empty key
\* is stored and no record when no record has an empty app_id.
C31_EmptyNeverMatches ==
    /\ \A q \in Queries :
           NonEmptyMatches(q) = {} =>
               /\ get_window_count(app_window_counts, q) = {0}
               /\ get_windows_for_app(windows, q) = <<>>
    /\ s_empty \notin DOMAIN app_window_counts =>
           get_window_count(app_window_counts, s_empty) = {0}
    /\ (\A i \in 1..Len(windows) : windows[i].app_id # s_empty) =>
           get_windows_for_app(windows, s_empty) = <<>>

AllReplies == HyprReplies \cup SwayReplies \cup GnomeReplies

\* the replies a backend's peer sends
RepliesOf(d) ==
    CASE d = "Hyprland" -> HyprReplies
      [] d = "Sway" -> SwayReplies
      [] d = "GNOME" -> GnomeReplies
      [] OTHER -> {}

\* the elements of a sequence, as a set
Range(q) == {q[k] : k \in 1..Len(q)}

\* two replies that report the same window set: the same reply, or the
\* same GNOME map iterated in two orders
SameWindows(a, b) ==
    \/ a = b
    \/ /\ a.t = "map" /\ b.t = "map"
       /\ Len(a.entries) = Len(b.entries)
       /\ Range(a.entries) = Range(b.entries)

\* the tracker runs on a supported backend, r is a well-formed reply, the
\* last step was no override and no poll that failed or panicked, and if
\* it was a step of a poll, the poll reported the window set of r
PollsReport(r) ==
    /\ running
    /\ desktop \in {"GNOME", "Hyprland", "Sway"}
    /\ r \in RepliesOf(desktop)
    /\ ~Malformed(desktop, r)
    /\ lastOp.op \notin {"set_window_count", "poll_failed", "poll_panicked"}
    /\ lastOp.op \in {"poll_counts", "poll_windows"} =>
           (lastOp.kind = "ok" /\ SameWindows(lastOp.reply, r))

\* the registry holds the records of r, in some order, and their counts
RegistryHolds(r) ==
    /\ r \in RepliesOf(desktop)
    /\ Len(windows) = Len(parse_reply(desktop, r).window_list)
    /\ Range(windows) = Range(parse_reply(desktop, r).window_list)
    /\ app_window_counts = DerivedCounts(windows)

\* C32: if from some point on the tracker keeps running on GNOME, Hyprland
\* or Sway, every poll succeeds and reports the window set of the same
\* reply r and no override is made, then from some point on the registry
\* holds the records of r with their derived counts.
C32_PeriodicConvergence ==
    \A r \in AllReplies : (<>[]PollsReport(r)) => (<>[]RegistryHolds(r))

\* a poll stored three windows in a running tracker while the next poll is
\* already dispatched
C32_Witness ==
    /\ running
    /\ lastOp.op = "poll_windows"
    /\ Len(windows) = 3
    /\ RegistryHolds(lastOp.reply)
    /\ overridden = {}
    /\ Len(tasks) = 1

\* the length field of the header that starts a stream, in the byte order
\* of the reading host
HeaderLength(w) ==
    IF w.endian = "little"
    THEN w.stream[7] + 256 * w.stream[8] + 65536 * w.stream[9]
         + 16777216 * w.stream[10]
    ELSE w.stream[10] + 256 * w.stream[9] + 65536 * w.stream[8]
         + 16777216 * w.stream[7]

\* the stream ends inside the header or inside the payload the header
\* announces
EndsEarly(w) ==
    Len(w.stream) < 14 \/ Len(w.stream) < 14 + HeaderLength(w)

\* C33: a Sway poll writes "i3-ipc", a length field of 0 and a type field
\* of 4 and nothing else; it reads 14 header bytes and then as many bytes
\* as the header's length field says, no more; when the stream ends before
\* that, the poll fails with the read's error and changes neither the
\* records nor the counts.
C33_SwayFraming ==
    /\ [](lastOp.op \in {"poll_counts", "poll_failed"} =>
              LET w == lastOp.reply.wire
              IN  /\ Len(w.sent) = 14
                  /\ SubSeq(w.sent, 1, 6) = s_i3_ipc
                  /\ SubSeq(w.sent, 7, 10) = <<0, 0, 0, 0>>
                  /\ SubSeq(w.sent, 11, 14)
                         = (IF w.endian = "little" THEN <<4, 0, 0, 0>>
                            ELSE <<0, 0, 0, 4>>)
                  /\ EndsEarly(w) =>
                         lastOp.op = "poll_failed" /\ lastOp.kind = "short_read"
                  /\ ~EndsEarly(w) =>
                         lastOp.kind = "ok" /\ w.consumed = 14 + HeaderLength(w))
    /\ [][(lastOp'.op \in {"poll_counts", "poll_failed"}
             /\ EndsEarly(lastOp'.reply.wire)) =>
              (windows' = windows /\ app_window_counts' = app_window_counts)]_vars

\* a reply cut inside its payload reached a registry that holds a window
C33_Witness ==
    /\ lastOp.op = "poll_failed"
    /\ Len(lastOp.reply.wire.stream) = 24
    /\ Len(windows) = 1
    /\ app_window_counts = (s_A :> 1)

\* how often a call occurs in a sequence of calls
Occurrences(calls, c) == Cardinality({k \in 1..Len(calls) : calls[k] = c})

\* loadScript is issued once, after queryWindowInfo, exactly in the polls
\* whose queryWindowInfo call failed
ScriptOnlyAfterFailure(l) ==
    /\ Occurrences(l.calls, "loadScript") = (IF l.kind = "absent" THEN 1 ELSE 0)
    /\ \A k \in 1..Len(l.calls) :
           l.calls[k] = "loadScript" =>
               \E j \in 1..(k - 1) : l.calls[j] = "queryWindowInfo"

\* C34 as stated: every KDE poll issues queryWindowInfo exactly once, and
\* loadScript exactly when that call failed, after it.
C34_KdeFallback_Orig ==
    (desktop = "KDE" /\ lastOp.op \in {"poll_done", "poll_failed"}) =>
        /\ Occurrences(lastOp.calls, "queryWindowInfo") = 1
        /\ ScriptOnlyAfterFailure(lastOp)

\* C34 amended: a KDE poll that reaches the session bus issues
\* queryWindowInfo exactly once, and loadScript exactly when that call
\* failed, after it; a poll that cannot reach the bus issues no call.
C34_KdeFallback ==
    (desktop = "KDE" /\ lastOp.op \in {"poll_done", "poll_failed"}) =>
        /\ Occurrences(lastOp.calls, "queryWindowInfo")
               = (IF lastOp.kind = "connect" THEN 0 ELSE 1)
        /\ lastOp.kind = "connect" => lastOp.calls = <<>>
        /\ ScriptOnlyAfterFailure(lastOp)

\* a poll whose primary call failed went on to the scripting interface
C34_Witness ==
    /\ desktop = "KDE"
    /\ lastOp.op = "poll_done"
    /\ lastOp.kind = "absent"
    /\ lastOp.calls = <<"queryWindowInfo", "loadScript">>

\* C35: set_window_count(x, n) leaves every key other than x stored with
\* its value and adds no key other than x; the records, the running flag
\* and the backend are unchanged, and get_all_windows and
\* get_windows_for_app return what they returned before.
C35_OverrideFrame ==
    [][lastOp'.op = "set_window_count" =>
          LET x == lastOp'.app_id
          IN  /\ (DOMAIN app_window_counts') \ {x} = (DOMAIN app_window_counts) \ {x}
              /\ \A k \in (DOMAIN app_window_counts) \ {x} :
                     app_window_counts'[k] = app_window_counts[k]
              /\ windows' = windows
              /\ running' = running
              /\ desktop' = desktop
              /\ get_all_windows(windows') = get_all_windows(windows)
              /\ \A q \in Queries :
                     get_windows_for_app(windows', q) = get_windows_for_app(windows, q)]_vars

\* a key was removed next to a key that matches it, with records stored
C35_Witness ==
    /\ lastOp.op = "set_window_count"
    /\ lastOp.app_id = s_firefox_esr
    /\ lastOp.count = 0
    /\ s_Firefox \in DOMAIN app_window_counts
    /\ Len(windows) = 3

====
